---- MODULE Spec2Model ----
(***************************************************************************)
(* Block-editor store selectors (packages/block-editor/src/store/          *)
(* selectors.ts) and the rich-text element renderer (packages/rich-text/    *)
(* src/components/element/index.tsx) of QuillForms.                         *)
(*                                                                         *)
(* The store state is { blocks, cache }.  Objects that the code compares   *)
(* by reference (the blocks array, a block object, a cache token) carry a   *)
(* `ref` number standing for their identity.  Three selectors are built by  *)
(* rememo's createSelector; each owns a cache of (dependants, arguments)    *)
(* -> value, which is part of the model's state.                            *)
(***************************************************************************)
EXTENDS Integers, Sequences, FiniteSets, TLC

\* ------------------------------------------------------------------ bounds
MaxBlocks == 2      \* blocks in the collection, and distinct block ids, under store writes
MaxWrites == 1      \* store writes in one behaviour
MaxFields == 4      \* blocks of a collection drawn as the input of a read
MaxIdent == 705     \* same-named blocks in the label specification
MaxStride == 3      \* patterns of interleaved editable blocks (label specification)
MaxUrl == 3         \* distinct link urls handed to the renderer
MaxChildren == 3    \* distinct children handed to the renderer
MaxPath == 3        \* distinct paths the position resolver may answer

\* --------------------------------------------------------- program constants
charCode == 97      \* 'a'.charCodeAt( 0 )

VARIABLES
    blocks,         \* state.blocks: the sequence of block objects
    blocksRef,      \* identity of the state.blocks array
    cache,          \* state.cache: block id -> token
    fresh,          \* next unused identity (allocator of the write path)
    memoBlocks,     \* rememo cache of getBlocks
    memoById,       \* rememo cache of getBlockById
    memoPrev,       \* rememo cache of getPreviousEditableFieldsWithOrder
    op,             \* the last operation and what it returned
    hb,             \* history of getBlocks calls
    hi,             \* history of getBlockById calls
    target,         \* the block id the caller asks about
    render          \* the last Element render: its props and its outcome

storeVars == <<blocks, blocksRef, cache, fresh>>
memoVars == <<memoBlocks, memoById, memoPrev>>
histVars == <<op, hb, hi>>
vars == <<blocks, blocksRef, cache, fresh, memoBlocks, memoById, memoPrev, op, hb, hi,
          target, render>>

\* ------------------------------------------------------------------ values
Undefined == [kind |-> "undefined"]
TypeError == [kind |-> "TypeError"]
Token(n) == [kind |-> "object", n |-> n]
Num(n) == [kind |-> "number", num |-> n]
Str(s) == [kind |-> "string", str |-> s]
List(s) == [kind |-> "list", items |-> s]
Block(id, name, ref) == [kind |-> "block", id |-> id, name |-> name, ref |-> ref]
Array(ref, items) == [kind |-> "array", ref |-> ref, items |-> items]

\* ------------------------------------------------------------ block registry
\* select( 'quillForms/blocks' ).getBlockTypes(): name -> block type
getBlockTypes ==
    [n \in {"short-text", "group"} |->
        [supports |-> [editable |-> (n = "short-text")]]]

\* getBlockTypes()[ name ], getBlockType( name ): undefined for an unregistered name
getBlockType(name) ==
    IF name \in DOMAIN getBlockTypes THEN getBlockTypes[name] ELSE Undefined

\* names a block of the collection may carry; "legacy-field" is not registered
BlockNames == {"short-text", "group", "legacy-field"}

\* ----------------------------------------------------------------- helpers
\* Array.prototype.findIndex / lodash findIndex: 0-based, -1 when nothing matches
findIndex(seq, P(_)) ==
    LET S == {i \in 1..Len(seq) : P(seq[i])}
    IN  IF S = {} THEN -1 ELSE (CHOOSE i \in S : \A j \in S : i <= j) - 1

\* Array.prototype.filter
filter(seq, P(_)) == SelectSeq(seq, P)

\* slice that also takes the element at `end`
slice_inclusive(seq, end) == SubSeq(seq, 1, end + 1)

\* lodash slice( array, 0, end )
slice(seq, end) == SubSeq(seq, 1, end)

\* state?.cache?.[ id ]
cacheOf(st, id) == IF id \in DOMAIN st.cache THEN st.cache[id] ELSE Undefined

\* ------------------------------------------------------------------ rememo
\* createSelector( selector, getDependants ): a call is answered from the cache
\* when an entry with the same dependants (by reference, in order) and the same
\* arguments after the state holds; otherwise the selector runs and its value is
\* stored.  A selector that throws stores nothing.
memoHit(memo, deps, args) == \E e \in memo : e.deps = deps /\ e.args = args
memoGet(memo, deps, args) == (CHOOSE e \in memo : e.deps = deps /\ e.args = args).val
memoPut(memo, deps, args, val) == memo \cup {[deps |-> deps, args |-> args, val |-> val]}

\* rememo keeps its caches in WeakMaps keyed by the dependants: entries under a
\* token that no longer exists can never be looked up again and are collected.
memoLive(memo, live) ==
    {e \in memo : \A i \in 1..Len(e.deps) : e.deps[i].kind = "object" => e.deps[i] \in live}

\* ------------------------------------------------------------------ getBlocks
\* getBlocks with no dependants
getBlocksDeps_none(st) == <<>>

\* map( state.blocks, ( block ) => state?.cache?.[ block.id ] )
getBlocksDeps(st) ==
    [i \in 1..Len(st.blocks.items) |-> cacheOf(st, st.blocks.items[i].id)]

getBlocksSelector(st) == st.blocks

getBlocks(mb, st) ==
    LET deps == getBlocksDeps(st)
    IN  IF memoHit(mb, deps, <<>>)
        THEN [val |-> memoGet(mb, deps, <<>>), mb |-> mb]
        ELSE [val |-> getBlocksSelector(st),
              mb |-> memoPut(mb, deps, <<>>, getBlocksSelector(st))]

\* --------------------------------------------------------------- getBlockById
\* getBlockById with no dependants
getBlockByIdDeps_none(st, blockId) == <<>>

getBlockByIdDeps(st, blockId) == <<cacheOf(st, blockId)>>

getBlockByIdSelector(st, blockId) ==
    LET Same(b) == b.id = blockId
        i == findIndex(st.blocks.items, Same)
    IN  IF i = -1 THEN Undefined ELSE st.blocks.items[i + 1]

getBlockById(mi, st, blockId) ==
    LET deps == getBlockByIdDeps(st, blockId)
    IN  IF memoHit(mi, deps, <<blockId>>)
        THEN [val |-> memoGet(mi, deps, <<blockId>>), mi |-> mi]
        ELSE [val |-> getBlockByIdSelector(st, blockId),
              mi |-> memoPut(mi, deps, <<blockId>>, getBlockByIdSelector(st, blockId))]

\* ---------------------------------------------------------- getEditableFields
\* getEditableFields without the editable test
getEditableFields_unfiltered(mb, st) ==
    LET Fields(r) ==
          IF \E i \in 1..Len(r.val.items) : getBlockType(r.val.items[i].name) = Undefined
          THEN [val |-> TypeError, mb |-> r.mb]
          ELSE [val |-> List(r.val.items), mb |-> r.mb]
    IN  Fields(getBlocks(mb, st))

\* blockType.supports.editable === true; dereferencing an absent type throws
getEditableFields(mb, st) ==
    LET Editable(b) == getBlockTypes[b.name].supports.editable = TRUE
        Fields(r) ==
          IF \E i \in 1..Len(r.val.items) : getBlockType(r.val.items[i].name) = Undefined
          THEN [val |-> TypeError, mb |-> r.mb]
          ELSE [val |-> List(filter(r.val.items, Editable)), mb |-> r.mb]
    IN  Fields(getBlocks(mb, st))

\* ------------------------------------------------------------------ identName
\* the while loop over b: a digit above 25 carries into the next place
RECURSIVE identCarry(_, _)
identCarry(b, sp) ==
    IF sp < Len(b)
    THEN IF b[sp + 1] > 25
         THEN LET div == b[sp + 1] \div 26
                  b1 == IF sp + 2 <= Len(b)
                        THEN [b EXCEPT ![sp + 2] = div - 1]
                        ELSE Append(b, div - 1)
              IN  identCarry([b1 EXCEPT ![sp + 1] = b[sp + 1] % 26], sp + 1)
         ELSE identCarry(b, sp + 1)
    ELSE b

\* String.fromCharCode( charCode + b[ i ] ): a string is the sequence of its char codes
fromCharCode(c) == <<c>>

\* the for loop: out = String.fromCharCode( charCode + b[ i ] ) + out
RECURSIVE identOut(_, _, _)
identOut(b, i, out) ==
    IF i < Len(b) THEN identOut(b, i + 1, fromCharCode(charCode + b[i + 1]) \o out) ELSE out

\* String.prototype.toUpperCase: a..z become A..Z, every other char is kept
toUpperCase(s) == [i \in 1..Len(s) |-> IF s[i] \in 97..122 THEN s[i] - 32 ELSE s[i]]

identName(a) == toUpperCase(identOut(identCarry(<<a>>, 0), 0, <<>>))

\* ---------------------------------------------------------- getBlockOrderById
getBlockOrderById(mb, mi, st, id) ==
    LET SameId(b) == b.id = id
        Order(formBlock, blockType, ef) ==
          LET SameName(b) == b.name = formBlock.name
          IN  IF ef.val = TypeError \/ blockType = Undefined
              THEN [val |-> TypeError, mb |-> ef.mb]
              ELSE IF blockType.supports.editable = TRUE
              THEN [val |-> Num(findIndex(ef.val.items, SameId) + 1), mb |-> ef.mb]
              ELSE [val |-> Str(identName(findIndex(filter(st.blocks.items, SameName), SameId))),
                    mb |-> ef.mb]
        Found(formBlock) ==
          IF formBlock = Undefined
          THEN [val |-> Undefined, mb |-> mb]
          ELSE Order(formBlock, getBlockType(formBlock.name), getEditableFields(mb, st))
        Ret(rb, r) == [val |-> r.val, mb |-> r.mb, mi |-> rb.mi]
        Call(rb) == Ret(rb, Found(rb.val))
    IN  Call(getBlockById(mi, st, id))

\* ----------------------------------------- getPreviousEditableFieldsWithOrder
\* blockType?.supports?.editable
supportsEditable(name) ==
    getBlockType(name) # Undefined /\ getBlockType(name).supports.editable

\* forEach( prevFormBlocks, ... ): acc carries the fields pushed so far and the
\* caches as the nested selector calls leave them; a throw ends the loop
RECURSIVE prevLoop(_, _, _, _)
prevLoop(prevFormBlocks, i, acc, st) ==
    IF i > Len(prevFormBlocks) \/ acc.thrown
    THEN acc
    ELSE LET Push(block, r) ==
               IF r.val = TypeError
               THEN [acc EXCEPT !.thrown = TRUE, !.mb = r.mb, !.mi = r.mi]
               ELSE [acc EXCEPT
                       !.fields = Append(@, [id |-> block.id, name |-> block.name,
                                             ref |-> block.ref, order |-> r.val]),
                       !.mb = r.mb, !.mi = r.mi]
             Each(block) ==
               IF supportsEditable(block.name)
               THEN Push(block, getBlockOrderById(acc.mb, acc.mi, st, block.id))
               ELSE acc
         IN  prevLoop(prevFormBlocks, i + 1, Each(prevFormBlocks[i]), st)

getPreviousSelector(mb, mi, st, id) ==
    LET SameId(b) == b.id = id
        Ret(acc) == [val |-> IF acc.thrown THEN TypeError ELSE List(acc.fields),
                     mb |-> acc.mb, mi |-> acc.mi]
        Loop(items, blockIndex, start) ==
          IF blockIndex > 0
          THEN prevLoop(slice(items, blockIndex), 1, start, st)
          ELSE start
        Run(rb) ==
          Ret(Loop(rb.val.items, findIndex(rb.val.items, SameId),
                   [fields |-> <<>>, thrown |-> FALSE, mb |-> rb.mb, mi |-> mi]))
    IN  Run(getBlocks(mb, st))

\* the previous fields keyed on the target block's own token
getPreviousDeps_own(st, id) == <<cacheOf(st, id)>>

getPreviousDeps(st, id) ==
    [i \in 1..Len(st.blocks.items) |-> cacheOf(st, st.blocks.items[i].id)]

getPreviousEditableFieldsWithOrder(mb, mi, mp, st, id) ==
    LET deps == getPreviousDeps(st, id)
    IN  IF memoHit(mp, deps, <<id>>)
        THEN [val |-> memoGet(mp, deps, <<id>>), mb |-> mb, mi |-> mi, mp |-> mp]
        ELSE LET Ret(r) == [val |-> r.val, mb |-> r.mb, mi |-> r.mi,
                             mp |-> IF r.val = TypeError THEN mp
                                    ELSE memoPut(mp, deps, <<id>>, r.val)]
             IN  Ret(getPreviousSelector(mb, mi, st, id))

\* ------------------------------------------------------------------- state
\* the state object handed to every selector
State == [blocks |-> Array(blocksRef, blocks), cache |-> cache]

\* what was written between two reads: nothing, one block's attributes, or more
NoWrite == [kind |-> "none", id |-> 0]
Changed(id) == [kind |-> "change", id |-> id]
OtherWrite == [kind |-> "other", id |-> 0]
addWrite(w, new) == IF w = NoWrite THEN new ELSE OtherWrite

NoCall == [kind |-> "none"]
NoOp(name) == [name |-> name, id |-> 0, ret |-> NoCall]
NoBlocksCall == [ret |-> NoCall, since |-> NoWrite, others |-> FALSE]
NoByIdCall == [id |-> 0, ret |-> NoCall, since |-> NoWrite]
NoRender == [props |-> NoCall, out |-> NoCall, findPathCalls |-> 0]

\* A store holding the blocks named by `names`, in order: distinct ids, one
\* token per block, nothing read yet.  Objects that exist from the start have
\* identities below 1; the write path allocates from 1.
storeIs(names) ==
    /\ blocks = [i \in 1..Len(names) |-> Block(i, names[i], -i)]
    /\ blocksRef = 0
    /\ cache = [i \in 1..Len(names) |-> Token(-i)]
    /\ fresh = 1
    /\ memoBlocks = {}
    /\ memoById = {}
    /\ memoPrev = {}
    /\ op = NoOp("init")
    /\ hb = NoBlocksCall
    /\ hi = NoByIdCall
    /\ render = NoRender

Init ==
    /\ \E n \in 0..MaxBlocks : \E names \in [1..n -> BlockNames] : storeIs(names)
    /\ target \in 1..MaxBlocks

\* ------------------------------------------------------------- store writes
\* Every write builds a new blocks array; a block that changes is a new object
\* with a new cache token; the token of a removed block is pruned.
written(w) ==
    /\ op' = NoOp("write")
    /\ hb' = IF hb.ret = NoCall THEN hb ELSE [hb EXCEPT !.since = addWrite(@, w)]
    /\ hi' = IF hi.ret = NoCall THEN hi ELSE [hi EXCEPT !.since = addWrite(@, w)]
    /\ LET live == {cache'[i] : i \in DOMAIN cache'}
       IN  /\ memoBlocks' = memoLive(memoBlocks, live)
           /\ memoById' = memoLive(memoById, live)
           /\ memoPrev' = memoLive(memoPrev, live)
    /\ UNCHANGED <<target, render>>

InsertBlock(name) ==
    /\ fresh <= MaxWrites
    /\ Len(blocks) < MaxBlocks
    /\ LET present == {blocks[i].id : i \in 1..Len(blocks)}
           absent == (1..MaxBlocks) \ present
           id == CHOOSE i \in absent : \A j \in absent : i <= j
       IN  /\ blocks' = Append(blocks, Block(id, name, fresh))
           /\ cache' = [i \in DOMAIN cache \cup {id} |->
                           IF i = id THEN Token(fresh) ELSE cache[i]]
    /\ blocksRef' = fresh
    /\ fresh' = fresh + 1
    /\ written(OtherWrite)

RemoveBlock(i) ==
    /\ fresh <= MaxWrites
    /\ i \in 1..Len(blocks)
    /\ blocks' = SubSeq(blocks, 1, i - 1) \o SubSeq(blocks, i + 1, Len(blocks))
    /\ cache' = [j \in DOMAIN cache \ {blocks[i].id} |-> cache[j]]
    /\ blocksRef' = fresh
    /\ fresh' = fresh + 1
    /\ written(OtherWrite)

SetBlockAttributes(i) ==
    /\ fresh <= MaxWrites
    /\ i \in 1..Len(blocks)
    /\ blocks' = [blocks EXCEPT ![i] = Block(@.id, @.name, fresh)]
    /\ cache' = [cache EXCEPT ![blocks[i].id] = Token(fresh)]
    /\ blocksRef' = fresh
    /\ fresh' = fresh + 1
    /\ written(Changed(blocks[i].id))

ReorderBlocks(i) ==
    /\ fresh <= MaxWrites
    /\ i \in 1..(Len(blocks) - 1)
    /\ blocks' = [blocks EXCEPT ![i] = blocks[i + 1], ![i + 1] = blocks[i]]
    /\ blocksRef' = fresh
    /\ fresh' = fresh + 1
    /\ UNCHANGED cache
    /\ written(OtherWrite)

Write ==
    \/ \E name \in BlockNames : InsertBlock(name)
    \/ \E i \in 1..MaxBlocks : RemoveBlock(i)
    \/ \E i \in 1..MaxBlocks : SetBlockAttributes(i)
    \/ \E i \in 1..MaxBlocks : ReorderBlocks(i)

\* ------------------------------------------------------------ selector calls
\* another selector ran since the last getBlocks call
otherCall == IF hb.ret = NoCall THEN hb ELSE [hb EXCEPT !.others = TRUE]

\* getBlocks as a plain function that copies the list on every call
CallGetBlocks_copy ==
    /\ op' = [name |-> "getBlocks", id |-> 0, ret |-> Array(fresh, blocks),
              prev |-> hb.ret, between |-> hb.since, others |-> hb.others]
    /\ hb' = [ret |-> Array(fresh, blocks), since |-> NoWrite, others |-> FALSE]
    /\ fresh' = fresh + 1
    /\ UNCHANGED <<blocks, blocksRef, cache, memoVars, hi, target, render>>

CallGetBlocks ==
    LET r == getBlocks(memoBlocks, State)
    IN  /\ memoBlocks' = r.mb
        /\ op' = [name |-> "getBlocks", id |-> 0, ret |-> r.val,
                  prev |-> hb.ret, between |-> hb.since, others |-> hb.others]
        /\ hb' = [ret |-> r.val, since |-> NoWrite, others |-> FALSE]
        /\ UNCHANGED <<storeVars, memoById, memoPrev, hi, target, render>>

CallGetBlockById(id) ==
    LET r == getBlockById(memoById, State, id)
    IN  /\ memoById' = r.mi
        /\ op' = [name |-> "getBlockById", id |-> id, ret |-> r.val,
                  prev |-> IF hi.id = id THEN hi.ret ELSE NoCall,
                  between |-> hi.since]
        /\ hi' = [id |-> id, ret |-> r.val, since |-> NoWrite]
        /\ hb' = otherCall
        /\ UNCHANGED <<storeVars, memoBlocks, memoPrev, target, render>>

CallGetBlockOrderById(id) ==
    LET Ret(r) ==
          /\ memoBlocks' = r.mb
          /\ memoById' = r.mi
          /\ op' = [name |-> "getBlockOrderById", id |-> id, ret |-> r.val]
          /\ hb' = otherCall
          /\ UNCHANGED <<storeVars, memoPrev, hi, target, render>>
    IN  Ret(getBlockOrderById(memoBlocks, memoById, State, id))

CallGetEditableFields ==
    LET Ret(r) ==
          /\ memoBlocks' = r.mb
          /\ op' = [name |-> "getEditableFields", id |-> 0, ret |-> r.val]
          /\ hb' = otherCall
          /\ UNCHANGED <<storeVars, memoById, memoPrev, hi, target, render>>
    IN  Ret(getEditableFields(memoBlocks, State))

CallGetPrevious(id) ==
    LET Ret(r) ==
          /\ memoBlocks' = r.mb
          /\ memoById' = r.mi
          /\ memoPrev' = r.mp
          /\ op' = [name |-> "getPreviousEditableFieldsWithOrder", id |-> id, ret |-> r.val]
          /\ hb' = otherCall
          /\ UNCHANGED <<storeVars, hi, target, render>>
    IN  Ret(getPreviousEditableFieldsWithOrder(memoBlocks, memoById, memoPrev, State, id))

\* --------------------------------------------------------- specifications
\* Lookups by id while the store is written.
Next ==
    \/ Write
    \/ CallGetBlockById(target)
    \/ CallGetBlockOrderById(target)
    \/ CallGetPrevious(target)

Spec == Init /\ [][Next]_vars

\* Referential stability: the store is written, getBlocks and getBlockById are
\* read, and getEditableFields (which reads through getBlocks) runs in between.
NextRefs ==
    \/ Write
    \/ CallGetBlocks
    \/ CallGetBlockById(target)
    \/ CallGetEditableFields

SpecRefs == Init /\ [][NextRefs]_vars

\* Reads of a collection that is not written: every collection of up to
\* MaxFields blocks is an input.
InitRead ==
    /\ \E n \in 0..MaxFields : \E names \in [1..n -> BlockNames] : storeIs(names)
    /\ target \in 1..MaxFields

NextRead ==
    \/ CallGetEditableFields
    \/ CallGetBlockOrderById(target)
    \/ CallGetPrevious(target)

SpecRead == InitRead /\ [][NextRead]_vars

\* ------------------------------------------------- rich-text element renderer
Null == [kind |-> "null"]
\* the rendered children handed to the component
Children(i) == [kind |-> "nodes", n |-> i]

\* ReactEditor.findPath( editor, element ): the editor's position lookup
findPath(editor, element) == editor.pathOf

\* Element handing the children on to the merge tag
Element_children(props) ==
    LET path == findPath(props.editor, props.element)
    IN  [findPathCalls |-> 1,
         out |->
           IF props.element.type = "mergeTag"
           THEN [tag |-> "MergeTagComponent", element |-> props.element,
                 mergeTags |-> props.mergeTags, editor |-> props.editor,
                 path |-> path, attributes |-> props.attributes,
                 children |-> props.children]
           ELSE IF props.element.type = "link"
           THEN [tag |-> "a", attributes |-> props.attributes,
                 href |-> props.element.url, children |-> props.children]
           ELSE [tag |-> "p", attributes |-> props.attributes,
                 children |-> props.children]]

\* The Element component: what it renders, and how often it asked the editor
\* for the node's path while doing so.
Element(props) ==
    LET path == findPath(props.editor, props.element)
    IN  [findPathCalls |-> 1,
         out |->
           IF props.element.type = "mergeTag"
           THEN [tag |-> "MergeTagComponent", element |-> props.element,
                 mergeTags |-> props.mergeTags, editor |-> props.editor,
                 path |-> path, attributes |-> props.attributes, children |-> Null]
           ELSE IF props.element.type = "link"
           THEN [tag |-> "a", attributes |-> props.attributes,
                 href |-> props.element.url, children |-> props.children]
           ELSE [tag |-> "p", attributes |-> props.attributes,
                 children |-> props.children]]

ElementTypes == {"mergeTag", "link", "paragraph", "heading-one"}

ElementProps ==
    [attributes : {[slateNode |-> "element"]},
     children : {Children(i) : i \in 1..MaxChildren},
     element : [type : ElementTypes, url : 1..MaxUrl],
     editor : [pathOf : 1..MaxPath],
     mergeTags : {<<>>, <<[type |-> "field", modifier |-> 1]>>}]

RenderElement ==
    /\ \E props \in ElementProps :
          render' = [props |-> props, out |-> Element(props).out,
                     findPathCalls |-> Element(props).findPathCalls]
    /\ UNCHANGED <<storeVars, memoVars, histVars, target>>

InitElement == storeIs(<<>>) /\ target = 1

SpecElement == InitElement /\ [][RenderElement]_vars

\* ------------------------------------------------------ label specification
\* Collections of up to MaxIdent blocks of one non-editable type, alone
\* (stride 1) or with an editable block at every stride-th place; the caller
\* asks for the order of the last block of that type.
identNames(n, stride) ==
    [i \in 1..n |-> IF stride > 1 /\ i % stride = 0 THEN "short-text" ELSE "group"]

InitIdent ==
    \E n \in 1..MaxIdent : \E stride \in 1..MaxStride :
        /\ n >= stride
        /\ storeIs(identNames(n, stride))
        /\ target = IF stride > 1 /\ n % stride = 0 THEN n - 1 ELSE n

NextIdent == CallGetBlockOrderById(target)

SpecIdent == InitIdent /\ [][NextIdent]_vars

\* ================================================================= properties
present(id) == \E i \in 1..Len(blocks) : blocks[i].id = id
posOf(id) == CHOOSE i \in 1..Len(blocks) : blocks[i].id = id
registered(b) == b.name \in DOMAIN getBlockTypes
editableBlock(b) == registered(b) /\ getBlockTypes[b.name].supports.editable
allRegistered == \A i \in 1..Len(blocks) : registered(blocks[i])
\* the number of editable blocks at or before position p
editableUpTo(p) == Cardinality({j \in 1..p : editableBlock(blocks[j])})
\* the number of blocks named like the block at p, at or before position p
sameNameUpTo(p) == Cardinality({j \in 1..p : blocks[j].name = blocks[p].name})
namesAre(names) ==
    /\ Len(blocks) >= Len(names)
    /\ \A i \in 1..Len(names) : blocks[i].name = names[i]

\* the label of k in bijective base 26: A..Z, AA..AZ, BA.., as char codes
RECURSIVE bijective(_)
bijective(k) ==
    IF k = 0 THEN <<>> ELSE bijective((k - 1) \div 26) \o <<65 + ((k - 1) % 26)>>

\* the number a label stands for
RECURSIVE labelValue(_)
labelValue(s) ==
    IF s = <<>> THEN 0
    ELSE 26 * labelValue(SubSeq(s, 1, Len(s) - 1)) + (s[Len(s)] - 64)

\* C1: when every block type is registered, getBlockOrderById of an editable
\* block is the number of editable blocks at or before it in block order
\* (1 + its index in getEditableFields); non-editable blocks consume no number.
C1_EditableOrder ==
    (/\ op.name = "getBlockOrderById"
     /\ allRegistered
     /\ present(op.id)
     /\ editableBlock(blocks[posOf(op.id)]))
    => op.ret = Num(editableUpTo(posOf(op.id)))

C1_Witness ==
    /\ op.name = "getBlockOrderById"
    /\ namesAre(<<"short-text", "group", "short-text">>)
    /\ op.id = blocks[3].id
    /\ op.ret = Num(2)

\* C2: getBlockOrderById of a block whose own type is registered and not
\* editable is the bijective base-26 label of its 1-based position among the
\* blocks of the same name.
C2_LabelOfEveryNonEditable ==
    (/\ op.name = "getBlockOrderById"
     /\ present(op.id)
     /\ registered(blocks[posOf(op.id)])
     /\ ~editableBlock(blocks[posOf(op.id)]))
    => op.ret = Str(bijective(sameNameUpTo(posOf(op.id))))

\* The labels themselves, in collections where every type is registered: the
\* label of the k-th same-named block is the bijective base-26 numeral of k,
\* is not empty, uses A..Z only and reads back as k (so labels are distinct).
LabelWhenAllRegistered ==
    (/\ op.name = "getBlockOrderById"
     /\ allRegistered
     /\ present(op.id)
     /\ ~editableBlock(blocks[posOf(op.id)]))
    => LET k == sameNameUpTo(posOf(op.id))
       IN  /\ op.ret.kind = "string"
           /\ op.ret.str = bijective(k)
           /\ op.ret.str # <<>>
           /\ \A i \in 1..Len(op.ret.str) : op.ret.str[i] \in 65..90
           /\ labelValue(op.ret.str) = k

LabelExamples ==
    /\ identName(0) = <<65>>
    /\ identName(25) = <<90>>
    /\ identName(26) = <<65, 65>>
    /\ identName(27) = <<65, 66>>
    /\ identName(701) = <<90, 90>>
    /\ identName(702) = <<65, 65, 65>>

LabelWitness ==
    /\ op.name = "getBlockOrderById"
    /\ sameNameUpTo(posOf(op.id)) = 703
    /\ op.ret = Str(<<65, 65, 65>>)

\* the fields a call for the block at position p should return
expectedPrevious(p) ==
    LET ed == SelectSeq(SubSeq(blocks, 1, p - 1), editableBlock)
    IN  [k \in 1..Len(ed) |->
            [id |-> ed[k].id, name |-> ed[k].name, ref |-> ed[k].ref,
             order |-> Num(editableUpTo(posOf(ed[k].id)))]]

\* C3: when every block type is registered, getPreviousEditableFieldsWithOrder
\* of the block at position p returns exactly the editable blocks before p, in
\* block order, each with its order; the target is never included.
C3_PreviousFields ==
    (/\ op.name = "getPreviousEditableFieldsWithOrder"
     /\ allRegistered
     /\ present(op.id))
    => op.ret = List(expectedPrevious(posOf(op.id)))

C3_Witness ==
    /\ op.name = "getPreviousEditableFieldsWithOrder"
    /\ namesAre(<<"short-text", "group", "short-text", "short-text">>)
    /\ op.id = blocks[4].id
    /\ op.ret.kind = "list"
    /\ Len(op.ret.items) = 2
    /\ op.ret.items[1].id = blocks[1].id /\ op.ret.items[1].order = Num(1)
    /\ op.ret.items[2].id = blocks[3].id /\ op.ret.items[2].order = Num(2)

\* C4: for an id that is not the id of a block of the collection, getBlockById
\* and getBlockOrderById return undefined and
\* getPreviousEditableFieldsWithOrder returns an empty sequence.
C4_MissingId ==
    ~present(op.id) =>
        /\ op.name = "getBlockById" => op.ret = Undefined
        /\ op.name = "getBlockOrderById" => op.ret = Undefined
        /\ op.name = "getPreviousEditableFieldsWithOrder" => op.ret = List(<<>>)

\* the id was looked up while its block was present, the block was removed,
\* and the id is looked up again
C4_Witness ==
    /\ op.name = "getBlockById"
    /\ ~present(op.id)
    /\ op.prev.kind = "block"
    /\ op.between # NoWrite

\* C5: two getBlocks calls with no write between them return the identical
\* reference, whatever other selectors ran in between.
C5_SameReference ==
    (/\ op.name = "getBlocks"
     /\ op.prev # NoCall
     /\ op.between = NoWrite)
    => op.ret.ref = op.prev.ref

C5_Witness ==
    /\ op.name = "getBlocks"
    /\ op.prev # NoCall
    /\ op.between = NoWrite
    /\ op.others
    /\ Len(blocks) > 0

C7_NeverStale ==
    op.name = "getPreviousEditableFieldsWithOrder"
    => op.ret = getPreviousSelector({}, {}, State, op.id).val

\* a result memoized before a write is still held, and the call after the
\* write returned something else
C7_Witness ==
    /\ op.name = "getPreviousEditableFieldsWithOrder"
    /\ fresh > 1
    /\ \E e \in memoPrev : e.args = <<op.id>> /\ e.val # op.ret

\* C8: the renderer dispatches on the node's type alone: a merge tag renders
\* the merge-tag component with the node, the merge tags, the editor and the
\* node's path and with null children; a link renders an anchor to the node's
\* url around the children; every other node renders a paragraph around them.
C8_Dispatch ==
    render.out # NoCall =>
        LET p == render.props
        IN  /\ p.element.type = "mergeTag" =>
                 render.out = [tag |-> "MergeTagComponent", element |-> p.element,
                               mergeTags |-> p.mergeTags, editor |-> p.editor,
                               path |-> p.editor.pathOf, attributes |-> p.attributes,
                               children |-> Null]
            /\ p.element.type = "link" =>
                 render.out = [tag |-> "a", attributes |-> p.attributes,
                               href |-> p.element.url, children |-> p.children]
            /\ p.element.type \notin {"mergeTag", "link"} =>
                 render.out = [tag |-> "p", attributes |-> p.attributes,
                               children |-> p.children]

C8_Witness ==
    /\ render.out # NoCall
    /\ render.props.element.type = "mergeTag"
    /\ render.props.children # Null
    /\ render.out.children = Null

\* C9: rendering a node that is not a merge tag performs no findPath call.
C9_NoFindPathForOthers ==
    (render.out # NoCall /\ render.props.element.type # "mergeTag")
    => render.findPathCalls = 0

\* the ids of the registered editable blocks before position p
editableIdsBefore(p) ==
    LET ed == SelectSeq(SubSeq(blocks, 1, p - 1), editableBlock)
    IN  [k \in 1..Len(ed) |-> ed[k].id]

\* C10: with a block of unregistered type in the collection, getEditableFields
\* and getBlockOrderById (of a present id) end in an error, while
\* getPreviousEditableFieldsWithOrder skips unregistered blocks and returns
\* the remaining previous editable fields.
C10_UnregisteredType ==
    ~allRegistered =>
        /\ op.name = "getEditableFields" => op.ret = TypeError
        /\ (op.name = "getBlockOrderById" /\ present(op.id)) => op.ret = TypeError
        /\ (op.name = "getPreviousEditableFieldsWithOrder" /\ present(op.id)) =>
              /\ op.ret.kind = "list"
              /\ [k \in 1..Len(op.ret.items) |-> op.ret.items[k].id]
                    = editableIdsBefore(posOf(op.id))
====
